---- MODULE Spec2Model ----
(***************************************************************************)
(* State-machine model of yt_avextractor.py: the per-item loop of main(),  *)
(* run_command(), the SIGINT handler and the cleanup registry.             *)
(* External tools (yt-dlp, ffmpeg) are the environment: their exit result  *)
(* and the files they leave on disk are chosen nondeterministically.       *)
(***************************************************************************)
EXTENDS Integers, Sequences, FiniteSets, TLC

\* ---------------------------------------------------------------- bounds
NumItems == 2
MaxRetries == 2

\* ------------------------------------------------------------- constants
\* sys.exit(n) hands n to the OS, which keeps the low 8 bits
ExitModulus == 256

Items == 1..NumItems
Kinds == {"probe", "agent", "codec"}

\* files the run can touch: the final artifact of item k, the temporary
\* artifact temp_<pid>_<k>.<ext> and the download agent's partial file
FinalPath(k) == <<"final", k>>
TempPath(k) == <<"temp", k>>
PartPath(k) == <<"part", k>>
Paths == {FinalPath(k) : k \in Items} \cup {TempPath(k) : k \in Items}
          \cup {PartPath(k) : k \in Items}

VARIABLES
    args,                      \* parsed command line (fixed for the run)
    pc,                        \* position of the controlling process
    i,                         \* loop variable of "for i, url in enumerate(urls, 1)"
    attempt,                   \* loop variable of "for attempt in range(args.retries)"
    procs,                     \* external processes alive: <<kind, item>>
    CURRENT_SUBPROCESS,        \* handle stored by run_command, or "none"
    current_files_to_cleanup,  \* cleanup registry
    failed_urls,               \* failure ledger, in memory
    error_count,
    SUMMARY_DATA,              \* items recorded by finish_summary
    disk,                      \* Paths -> "none" | "old" | "new"
    OVERWRITE_ALL,             \* module global of line 94; nothing assigns it
    err_file,                  \* ytextractor.err: absent, stale or written
    exit_status,               \* -1 while running
    spawns,                    \* history: processes spawned per item and kind
    fails,                     \* history: failed stage attempts per item and kind
    succeeded,                 \* history: items for which finish_summary ran
    interrupted_at,            \* history: pc at which SIGINT was handled
    u_in,                      \* unit converter: the token under conversion
    u_out,                     \* unit converter: what was returned for it
    hcfg,                      \* progress handlers: is_video, total_duration
    hs,                        \* progress handlers: their state, per display mode
    now,                       \* time.monotonic(), in milliseconds
    nlines,                    \* output lines read by run_command so far
    metrics,                   \* per item: final size and the rates its stages leave
    report                     \* what the end-of-run summary printed

vars == <<args, pc, i, attempt, procs, CURRENT_SUBPROCESS,
          current_files_to_cleanup, failed_urls, error_count, SUMMARY_DATA,
          OVERWRITE_ALL, disk, err_file, exit_status, spawns, fails,
          succeeded, interrupted_at, u_in, u_out, hcfg, hs, now, nlines,
          metrics, report>>

\* the variables of main(), run_command() and the signal handler
mainvars == <<args, pc, i, attempt, procs, CURRENT_SUBPROCESS,
              current_files_to_cleanup, failed_urls, error_count,
              SUMMARY_DATA, OVERWRITE_ALL, disk, err_file, exit_status,
              spawns, fails, succeeded, interrupted_at, metrics, report>>

\* the variables of the end-of-run summary
summaryvars == <<metrics, report>>

\* the variables of the unit converter and of the progress handlers
unitvars == <<u_in, u_out>>
handlervars == <<hcfg, hs, now, nlines>>

Exists(p) == disk[p] # "none"

FailureRecord(url, reason) == [url |-> url, reason |-> reason]

Bump(f, k, kind) == [f EXCEPT ![k][kind] = @ + 1]

\* final size (bytes) and last retrieval / conversion rate (bytes/s) of an item
Metrics ==
    { [size |-> 200, download_speed |-> 0, compress_speed |-> 400],
      [size |-> 300, download_speed |-> 200, compress_speed |-> 600],
      [size |-> 500, download_speed |-> 400, compress_speed |-> 0] }

DefaultMetrics ==
    [k \in Items |-> [size |-> 300, download_speed |-> 200,
                      compress_speed |-> 600]]

\* everything of the start state but the command line, the ledger file and
\* the metrics of the items
InitRest ==
    /\ pc = "for_item"
    /\ i = 1
    /\ attempt = 0
    /\ procs = {}
    /\ CURRENT_SUBPROCESS = "none"
    /\ current_files_to_cleanup = <<>>
    /\ failed_urls = <<>>
    /\ error_count = 0
    /\ SUMMARY_DATA = <<>>
    /\ disk \in {d \in [Paths -> {"none", "old"}] :
                   \A p \in Paths : p[1] # "final" => d[p] = "none"}
    /\ OVERWRITE_ALL = FALSE
    /\ exit_status = -1
    /\ spawns = [k \in Items |-> [kind \in Kinds |-> 0]]
    /\ fails = [k \in Items |-> [kind \in Kinds |-> 0]]
    /\ succeeded = {}
    /\ interrupted_at = "none"
    /\ u_in = "idle"
    /\ u_out = "idle"
    /\ hcfg = "idle"
    /\ hs = "idle"
    /\ now = 0
    /\ nlines = 0
    /\ report = [printed |-> FALSE]

Init ==
    /\ args \in [retries : 0..MaxRetries, is_video : BOOLEAN, skip : BOOLEAN,
                 overwrite : BOOLEAN, summarize : BOOLEAN]
    /\ err_file = [state |-> "absent", lines |-> <<>>]
    /\ metrics = DefaultMetrics
    /\ InitRest

\* the same run started where ytextractor.err may be left over from an
\* earlier run; --skip and --overwrite, which the ledger does not depend on,
\* are not given
InitLedger ==
    /\ args \in [retries : 0..MaxRetries, is_video : BOOLEAN, skip : {FALSE},
                 overwrite : {FALSE}, summarize : BOOLEAN]
    /\ err_file \in [state : {"absent", "stale"}, lines : {<<>>}]
    /\ metrics = DefaultMetrics
    /\ InitRest

\* a run into an empty destination directory; --skip and --overwrite, which
\* the order of the stages does not depend on, are not given
InitStages ==
    /\ args \in [retries : 0..MaxRetries, is_video : BOOLEAN, skip : {FALSE},
                 overwrite : {FALSE}, summarize : BOOLEAN]
    /\ err_file = [state |-> "absent", lines |-> <<>>]
    /\ metrics = DefaultMetrics
    /\ InitRest
    /\ \A p \in Paths : disk[p] = "none"

\* a run with -sum whose items differ in size and rates; no final file
\* exists beforehand
InitSummary ==
    /\ args \in [retries : 0..MaxRetries, is_video : BOOLEAN, skip : {FALSE},
                 overwrite : {FALSE}, summarize : {TRUE}]
    /\ err_file = [state |-> "absent", lines |-> <<>>]
    /\ metrics \in [Items -> Metrics]
    /\ InitRest
    /\ \A p \in Paths : disk[p] = "none"

\* ------------------------------------------------------------- helpers
Range(s) == {s[n] : n \in 1..Len(s)}

Running == pc \notin {"exit", "fatal", "aborted"}

\* "continue" / "break" / end of the attempt loop: on to the next url
NextItem ==
    /\ i' = i + 1
    /\ attempt' = 0
    /\ pc' = "for_item"

\* the record appended without counting it
RecordFailure_NoCount(reason) ==
    /\ failed_urls' = Append(failed_urls, FailureRecord(i, reason))
    /\ error_count' = error_count

\* failed_urls.append(...); error_count += 1
RecordFailure(reason) ==
    /\ failed_urls' = Append(failed_urls, FailureRecord(i, reason))
    /\ error_count' = error_count + 1

\* finish_summary(): the summary record is kept only when -sum is given and
\* the final file is found on the disk d left by the stage
finish_summary(d) ==
    /\ SUMMARY_DATA' = IF args.summarize /\ d[FinalPath(i)] # "none"
                       THEN Append(SUMMARY_DATA, i) ELSE SUMMARY_DATA
    /\ succeeded' = succeeded \cup {i}

\* cleanup_incomplete_files(): os.remove every registered path that exists
cleanup_incomplete_files ==
    [p \in Paths |-> IF p \in Range(current_files_to_cleanup) THEN "none"
                     ELSE disk[p]]

\* terminate_process_tree(): killpg of the stored handle's process group
terminate_process_tree ==
    IF CURRENT_SUBPROCESS # "none"
    THEN {p \in procs : p[1] = CURRENT_SUBPROCESS}
    ELSE {}

\* run_command returning at end of output without wait(): the child lives on
WaitAndClear_NoWait(kind) ==
    /\ procs' = procs
    /\ CURRENT_SUBPROCESS' = "none"

\* run_command, lines 343-345: wait(), CURRENT_SUBPROCESS = None, return
WaitAndClear(kind) ==
    /\ procs' = procs \ {<<kind, i>>}
    /\ CURRENT_SUBPROCESS' = "none"

\* run_command, line 324 raising (tool cannot be launched), line 347
LaunchError ==
    /\ pc' = "fatal"
    /\ exit_status' = 1
    /\ UNCHANGED <<i, attempt, procs, spawns>>

\* run_command, line 324: Popen succeeded, handle not yet stored
Popen(kind, next) ==
    /\ procs' = procs \cup {<<kind, i>>}
    /\ spawns' = Bump(spawns, i, kind)
    /\ pc' = next
    /\ UNCHANGED <<i, attempt, exit_status>>

\* ------------------------------------------------------------- main()
\* the except branch without its "continue": the item goes on to its stages
MetadataFetchFailed_NoContinue ==
    /\ RecordFailure("Metadata fetch failed.")
    /\ pc' = "starting"
    /\ UNCHANGED <<i, attempt>>

\* lines 519-523
MetadataFetchFailed ==
    /\ RecordFailure("Metadata fetch failed.")
    /\ NextItem

\* lines 487-511: next url, per-item reset, yt-dlp --dump-json is started
StartItem(launched) ==
    /\ pc = "for_item"
    /\ i <= NumItems
    /\ IF launched
       THEN /\ procs' = procs \cup {<<"probe", i>>}
            /\ spawns' = Bump(spawns, i, "probe")
            /\ pc' = "probe"
            /\ UNCHANGED <<i, attempt, failed_urls, error_count, fails>>
       ELSE /\ MetadataFetchFailed
            /\ fails' = Bump(fails, i, "probe")
            /\ UNCHANGED <<procs, spawns>>
    /\ UNCHANGED <<unitvars, handlervars, summaryvars, args, OVERWRITE_ALL, CURRENT_SUBPROCESS, current_files_to_cleanup,
                   SUMMARY_DATA, disk, err_file, exit_status, succeeded,
                   interrupted_at>>

\* lines 511-523: check_output returns; ok = exit 0 and well-formed JSON
ProbeReturn(ok) ==
    /\ pc = "probe"
    /\ procs' = procs \ {<<"probe", i>>}
    /\ IF ok
       THEN /\ pc' = "starting"
            /\ UNCHANGED <<i, attempt, failed_urls, error_count, fails>>
       ELSE /\ MetadataFetchFailed
            /\ fails' = Bump(fails, i, "probe")
    /\ UNCHANGED <<unitvars, handlervars, summaryvars, args, OVERWRITE_ALL, CURRENT_SUBPROCESS, current_files_to_cleanup,
                   SUMMARY_DATA, disk, err_file, exit_status, spawns,
                   succeeded, interrupted_at>>

\* lines 525-543: status line / countdown before the attempt loop
Starting ==
    /\ pc = "starting"
    /\ pc' = "attempts"
    /\ attempt' = 0
    /\ UNCHANGED <<unitvars, handlervars, summaryvars, args, OVERWRITE_ALL, i, procs, CURRENT_SUBPROCESS,
                   current_files_to_cleanup, failed_urls, error_count,
                   SUMMARY_DATA, disk, err_file, exit_status, spawns, fails,
                   succeeded, interrupted_at>>

\* lines 545-555 / 566-572: one more attempt, the download agent is started
SpawnRetrieval(launched) ==
    /\ pc = "attempts"
    /\ attempt < args.retries
    /\ IF launched THEN Popen("agent", "dl_popen") ELSE LaunchError
    /\ UNCHANGED <<unitvars, handlervars, summaryvars, args, OVERWRITE_ALL, CURRENT_SUBPROCESS, current_files_to_cleanup,
                   failed_urls, error_count, SUMMARY_DATA, disk, err_file,
                   fails, succeeded, interrupted_at>>

\* line 545: range(args.retries) is exhausted
AttemptsExhausted ==
    /\ pc = "attempts"
    /\ attempt >= args.retries
    /\ NextItem
    /\ UNCHANGED <<unitvars, handlervars, summaryvars, args, OVERWRITE_ALL, procs, CURRENT_SUBPROCESS, current_files_to_cleanup,
                   failed_urls, error_count, SUMMARY_DATA, disk, err_file,
                   exit_status, spawns, fails, succeeded, interrupted_at>>

\* line 324: the assignment CURRENT_SUBPROCESS = <Popen object>
StoreHandle ==
    /\ pc \in {"dl_popen", "cv_popen"}
    /\ CURRENT_SUBPROCESS' = IF pc = "dl_popen" THEN "agent" ELSE "codec"
    /\ pc' = IF pc = "dl_popen" THEN "dl_read" ELSE "cv_read"
    /\ UNCHANGED <<unitvars, handlervars, summaryvars, args, OVERWRITE_ALL, i, attempt, procs, current_files_to_cleanup,
                   failed_urls, error_count, SUMMARY_DATA, disk, err_file,
                   exit_status, spawns, fails, succeeded, interrupted_at>>

\* lines 326-341 while the agent runs: it writes its partial file
AgentProgress ==
    /\ pc = "dl_read"
    /\ disk[PartPath(i)] = "none"
    /\ disk' = [disk EXCEPT ![PartPath(i)] = "new"]
    /\ UNCHANGED <<unitvars, handlervars, summaryvars, args, OVERWRITE_ALL, pc, i, attempt, procs, CURRENT_SUBPROCESS,
                   current_files_to_cleanup, failed_urls, error_count,
                   SUMMARY_DATA, err_file, exit_status, spawns, fails,
                   succeeded, interrupted_at>>

\* what the download agent leaves on disk when it exits: on success the
\* partial file is gone and the output is in place (video: the final path,
\* kept as it was when it already existed and --force-overwrites was not
\* passed; audio: the temporary artifact, unless wrote is FALSE)
AgentDisk(ok, wrote) ==
    IF ~ok THEN disk
    ELSE IF args.is_video
    THEN [disk EXCEPT ![PartPath(i)] = "none",
                      ![FinalPath(i)] = IF @ = "none" \/ args.overwrite
                                        THEN "new" ELSE @]
    ELSE [disk EXCEPT ![PartPath(i)] = "none",
                      ![TempPath(i)] = IF wrote THEN "new" ELSE "none"]

\* lines 555-557: the video download returned True
VideoRetrievalOk ==
    /\ pc = "dl_read"
    /\ args.is_video
    /\ WaitAndClear("agent")
    /\ disk' = AgentDisk(TRUE, TRUE)
    /\ finish_summary(disk')
    /\ NextItem
    /\ UNCHANGED <<unitvars, handlervars, summaryvars, args, OVERWRITE_ALL, current_files_to_cleanup, failed_urls, error_count,
                   err_file, exit_status, spawns, fails, interrupted_at>>

\* a FailureRecord appended at every failed attempt, not only at the last
VideoRetrievalFail_RecordEach ==
    /\ pc = "dl_read"
    /\ args.is_video
    /\ WaitAndClear("agent")
    /\ fails' = Bump(fails, i, "agent")
    /\ RecordFailure("Download failed (Video).")
    /\ IF attempt < args.retries - 1
       THEN /\ pc' = "sleep_v"
            /\ UNCHANGED attempt
       ELSE /\ attempt' = attempt + 1
            /\ pc' = "attempts"
    /\ UNCHANGED <<unitvars, handlervars, summaryvars, args, OVERWRITE_ALL, i,
                   current_files_to_cleanup, SUMMARY_DATA, disk, err_file,
                   exit_status, spawns, succeeded, interrupted_at>>

\* lines 558-564: the video download returned False
VideoRetrievalFail ==
    /\ pc = "dl_read"
    /\ args.is_video
    /\ WaitAndClear("agent")
    /\ fails' = Bump(fails, i, "agent")
    /\ IF attempt < args.retries - 1
       THEN /\ pc' = "sleep_v"
            /\ UNCHANGED <<attempt, failed_urls, error_count>>
       ELSE /\ RecordFailure("Download failed (Video).")
            /\ attempt' = attempt + 1
            /\ pc' = "attempts"
    /\ UNCHANGED <<unitvars, handlervars, summaryvars, args, OVERWRITE_ALL, i, current_files_to_cleanup, SUMMARY_DATA, disk,
                   err_file, exit_status, spawns, succeeded, interrupted_at>>

\* line 561: time.sleep(5), then the next iteration of the attempt loop
BackoffVideo ==
    /\ pc = "sleep_v"
    /\ attempt' = attempt + 1
    /\ pc' = "attempts"
    /\ UNCHANGED <<unitvars, handlervars, summaryvars, args, OVERWRITE_ALL, i, procs, CURRENT_SUBPROCESS,
                   current_files_to_cleanup, failed_urls, error_count,
                   SUMMARY_DATA, disk, err_file, exit_status, spawns, fails,
                   succeeded, interrupted_at>>

\* the audio download returning True taken as the success of the item
AudioRetrievalOk_Finish(wrote) ==
    /\ pc = "dl_read"
    /\ ~args.is_video
    /\ WaitAndClear("agent")
    /\ disk' = AgentDisk(TRUE, wrote)
    /\ finish_summary(disk')
    /\ NextItem
    /\ UNCHANGED <<unitvars, handlervars, summaryvars, args, OVERWRITE_ALL,
                   current_files_to_cleanup, failed_urls, error_count,
                   err_file, exit_status, spawns, fails, interrupted_at>>

\* line 572: the audio download returned True
AudioRetrievalOk(wrote) ==
    /\ pc = "dl_read"
    /\ ~args.is_video
    /\ WaitAndClear("agent")
    /\ disk' = AgentDisk(TRUE, wrote)
    /\ pc' = "glob"
    /\ UNCHANGED <<unitvars, handlervars, summaryvars, args, OVERWRITE_ALL, i, attempt, current_files_to_cleanup, failed_urls,
                   error_count, SUMMARY_DATA, err_file, exit_status, spawns,
                   fails, succeeded, interrupted_at>>

\* the missing temporary artifact handled like any other stage failure:
\* recorded, and the attempt loop goes on
GlobTemp_NoBreak(launched) ==
    /\ pc = "glob"
    /\ IF Exists(TempPath(i))
       THEN /\ current_files_to_cleanup' =
                   Append(current_files_to_cleanup, TempPath(i))
            /\ IF launched THEN Popen("codec", "cv_popen") ELSE LaunchError
            /\ UNCHANGED <<failed_urls, error_count>>
       ELSE /\ RecordFailure("Downloaded temp file missing.")
            /\ attempt' = attempt + 1
            /\ pc' = "attempts"
            /\ UNCHANGED <<i, current_files_to_cleanup, procs, spawns,
                           exit_status>>
    /\ UNCHANGED <<unitvars, handlervars, summaryvars, args, OVERWRITE_ALL, CURRENT_SUBPROCESS, SUMMARY_DATA, disk, err_file,
                   fails, succeeded, interrupted_at>>

\* lines 573-592 and 604-607: look for the temporary artifact; register it
\* and start ffmpeg, or give the item up
GlobTemp(launched) ==
    /\ pc = "glob"
    /\ IF Exists(TempPath(i))
       THEN /\ current_files_to_cleanup' =
                   Append(current_files_to_cleanup, TempPath(i))
            /\ IF launched THEN Popen("codec", "cv_popen") ELSE LaunchError
            /\ UNCHANGED <<failed_urls, error_count>>
       ELSE /\ RecordFailure("Downloaded temp file missing.")
            /\ NextItem
            /\ UNCHANGED <<current_files_to_cleanup, procs, spawns,
                           exit_status>>
    /\ UNCHANGED <<unitvars, handlervars, summaryvars, args, OVERWRITE_ALL, CURRENT_SUBPROCESS, SUMMARY_DATA, disk, err_file,
                   fails, succeeded, interrupted_at>>

\* lines 608-615: the audio download returned False
AudioRetrievalFail ==
    /\ pc = "dl_read"
    /\ ~args.is_video
    /\ WaitAndClear("agent")
    /\ fails' = Bump(fails, i, "agent")
    /\ IF attempt < args.retries - 1
       THEN /\ pc' = "sleep_a"
            /\ UNCHANGED <<i, attempt, failed_urls, error_count>>
       ELSE /\ RecordFailure("Download failed (Audio).")
            /\ NextItem
    /\ UNCHANGED <<unitvars, handlervars, summaryvars, args, OVERWRITE_ALL, current_files_to_cleanup, SUMMARY_DATA, disk,
                   err_file, exit_status, spawns, succeeded, interrupted_at>>

\* lines 611 and 615: time.sleep(5), then the break that follows the if/else
BackoffAudio ==
    /\ pc = "sleep_a"
    /\ NextItem
    /\ UNCHANGED <<unitvars, handlervars, summaryvars, args, OVERWRITE_ALL, procs, CURRENT_SUBPROCESS, current_files_to_cleanup,
                   failed_urls, error_count, SUMMARY_DATA, disk, err_file,
                   exit_status, spawns, fails, succeeded, interrupted_at>>

\* lines 326-341 while ffmpeg runs: -y opens and writes the final path
CodecProgress ==
    /\ pc = "cv_read"
    /\ disk[FinalPath(i)] # "new"
    /\ disk' = [disk EXCEPT ![FinalPath(i)] = "new"]
    /\ UNCHANGED <<unitvars, handlervars, summaryvars, args, OVERWRITE_ALL, pc, i, attempt, procs, CURRENT_SUBPROCESS,
                   current_files_to_cleanup, failed_urls, error_count,
                   SUMMARY_DATA, err_file, exit_status, spawns, fails,
                   succeeded, interrupted_at>>

\* out_time_us values that int() of line 422 rejects with ValueError
NotAnInteger == {<<"N", "/", "A">>}

\* lines 341, 422 and 346-347: conversion_progress_handler raises on the
\* line 'out_time_us=<value>', the except of run_command prints the error
\* and calls sys.exit(1); ffmpeg is neither waited for nor terminated
ConversionHandlerRaises(value) ==
    /\ pc = "cv_read"
    /\ value \in NotAnInteger
    /\ pc' = "fatal"
    /\ exit_status' = 1
    /\ UNCHANGED <<unitvars, handlervars, summaryvars, args, OVERWRITE_ALL, i,
                   attempt, procs, CURRENT_SUBPROCESS,
                   current_files_to_cleanup, failed_urls, error_count,
                   SUMMARY_DATA, disk, err_file, spawns, fails, succeeded,
                   interrupted_at>>

\* lines 592-594: ffmpeg returned True; the break leaves the attempt loop
TranscodeOk ==
    /\ pc = "cv_read"
    /\ WaitAndClear("codec")
    /\ disk' = [disk EXCEPT ![FinalPath(i)] = "new"]
    /\ finish_summary(disk')
    /\ NextItem
    /\ UNCHANGED <<unitvars, handlervars, summaryvars, args, OVERWRITE_ALL, current_files_to_cleanup, failed_urls, error_count,
                   err_file, exit_status, spawns, fails, interrupted_at>>

\* lines 595-603: ffmpeg returned False
TranscodeFail ==
    /\ pc = "cv_read"
    /\ WaitAndClear("codec")
    /\ fails' = Bump(fails, i, "codec")
    /\ IF attempt < args.retries - 1
       THEN /\ pc' = "sleep_cv"
            /\ UNCHANGED <<attempt, failed_urls, error_count, disk>>
       ELSE /\ RecordFailure("Conversion to MP3 failed.")
            /\ disk' = [disk EXCEPT ![TempPath(i)] = "none"]
            /\ attempt' = attempt + 1
            /\ pc' = "attempts"
    /\ UNCHANGED <<unitvars, handlervars, summaryvars, args, OVERWRITE_ALL, i, current_files_to_cleanup, SUMMARY_DATA, err_file,
                   exit_status, spawns, succeeded, interrupted_at>>

\* the retry without the os.remove of line 602
BackoffTranscode_KeepTemp ==
    /\ pc = "sleep_cv"
    /\ disk' = disk
    /\ attempt' = attempt + 1
    /\ pc' = "attempts"
    /\ UNCHANGED <<unitvars, handlervars, summaryvars, args, OVERWRITE_ALL, i,
                   procs, CURRENT_SUBPROCESS, current_files_to_cleanup,
                   failed_urls, error_count, SUMMARY_DATA, err_file,
                   exit_status, spawns, fails, succeeded, interrupted_at>>

\* lines 598 and 602-603: time.sleep(5), os.remove(actual_input), next attempt
BackoffTranscode ==
    /\ pc = "sleep_cv"
    /\ disk' = [disk EXCEPT ![TempPath(i)] = "none"]
    /\ attempt' = attempt + 1
    /\ pc' = "attempts"
    /\ UNCHANGED <<unitvars, handlervars, summaryvars, args, OVERWRITE_ALL, i, procs, CURRENT_SUBPROCESS,
                   current_files_to_cleanup, failed_urls, error_count,
                   SUMMARY_DATA, err_file, exit_status, spawns, fails,
                   succeeded, interrupted_at>>

\* line 522: one ledger line, "<url> | REASON: <tag>"
LedgerLine(r) == <<r.url, " | REASON: ", r.reason>>

\* the ledger written unconditionally (the test of line 641 dropped)
WriteLedger_Always ==
    [state |-> "written",
     lines |-> [n \in 1..Len(failed_urls) |-> LedgerLine(failed_urls[n])]]

\* lines 641-644: ytextractor.err after the run
WriteLedger ==
    IF failed_urls # <<>>
    THEN [state |-> "written",
          lines |-> [n \in 1..Len(failed_urls) |-> LedgerLine(failed_urls[n])]]
    ELSE err_file

\* what the stages of item k left for finish_summary: the size of the final
\* file and the two rate globals (the conversion rate stays at the 0.0 of
\* line 493 when no conversion runs)
SummaryRecord(k) ==
    [size |-> metrics[k].size,
     download_speed |-> metrics[k].download_speed,
     compress_speed |-> IF args.is_video THEN 0
                        ELSE metrics[k].compress_speed]

\* [d[f] for d in SUMMARY_DATA]
Column(f) ==
    [n \in 1..Len(SUMMARY_DATA) |-> SummaryRecord(SUMMARY_DATA[n])[f]]

RECURSIVE SeqSum(_)
SeqSum(s) == IF s = <<>> THEN 0 ELSE s[1] + SeqSum(Tail(s))

\* the mean taken over all samples, zero samples included
AveragePositive_AllSamples(samples) ==
    LET all_speeds == SelectSeq(samples, LAMBDA x : x > 0)
    IN  IF all_speeds # <<>>
        THEN [num |-> SeqSum(all_speeds), den |-> Len(samples)]
        ELSE [num |-> 0, den |-> 1]

\* lines 624-628: sum(all_speeds) / len(all_speeds) if all_speeds else 0
AveragePositive(samples) ==
    LET all_speeds == SelectSeq(samples, LAMBDA x : x > 0)
    IN  IF all_speeds # <<>>
        THEN [num |-> SeqSum(all_speeds), den |-> Len(all_speeds)]
        ELSE [num |-> 0, den |-> 1]

\* line 618: the succeeded count the summary reports
total_succeeded == Len(SUMMARY_DATA)

NoReport == [printed |-> FALSE]

\* lines 617-639: the summary, printed when --list and -sum are given
Summary ==
    IF args.summarize
    THEN [printed |-> TRUE,
          total_succeeded |-> total_succeeded,
          total_failed |-> Len(failed_urls),
          total_downloaded_bytes_sum |-> SeqSum(Column("size")),
          avg_download_speed_bps |-> AveragePositive(Column("download_speed")),
          avg_compress_speed_bps |-> AveragePositive(Column("compress_speed"))]
    ELSE NoReport

\* lines 617-648: the summary, the ledger file and sys.exit(error_count)
Finish ==
    /\ pc = "for_item"
    /\ i > NumItems
    /\ err_file' = WriteLedger
    /\ exit_status' = error_count % ExitModulus
    /\ pc' = "exit"
    /\ report' = Summary
    /\ UNCHANGED <<unitvars, handlervars, metrics, args, OVERWRITE_ALL, i, attempt, procs, CURRENT_SUBPROCESS,
                   current_files_to_cleanup, failed_urls, error_count,
                   SUMMARY_DATA, disk, spawns, fails, succeeded,
                   interrupted_at>>

\* lines 218-222: SIGINT.  group = the signal went to the whole foreground
\* process group (terminal Ctrl-C), which the metadata probe shares; the
\* stage processes run in their own session (line 322)
signal_handler(group) ==
    /\ Running
    /\ procs' = (procs \ terminate_process_tree)
                  \ (IF group THEN {p \in procs : p[1] = "probe"} ELSE {})
    /\ disk' = cleanup_incomplete_files
    /\ pc' = "aborted"
    /\ exit_status' = 1
    /\ interrupted_at' = pc
    /\ UNCHANGED <<unitvars, handlervars, summaryvars, args, OVERWRITE_ALL, i, attempt, CURRENT_SUBPROCESS,
                   current_files_to_cleanup, failed_urls, error_count,
                   SUMMARY_DATA, err_file, spawns, fails, succeeded>>

Next ==
    \/ \E launched \in BOOLEAN : StartItem(launched)
    \/ \E ok \in BOOLEAN : ProbeReturn(ok)
    \/ Starting
    \/ \E launched \in BOOLEAN : SpawnRetrieval(launched)
    \/ AttemptsExhausted
    \/ StoreHandle
    \/ AgentProgress
    \/ VideoRetrievalOk
    \/ VideoRetrievalFail
    \/ BackoffVideo
    \/ \E wrote \in BOOLEAN : AudioRetrievalOk(wrote)
    \/ \E launched \in BOOLEAN : GlobTemp(launched)
    \/ AudioRetrievalFail
    \/ BackoffAudio
    \/ CodecProgress
    \/ \E value \in NotAnInteger : ConversionHandlerRaises(value)
    \/ TranscodeOk
    \/ TranscodeFail
    \/ BackoffTranscode
    \/ Finish
    \/ \E group \in BOOLEAN : signal_handler(group)

Spec == Init /\ [][Next]_vars

SpecLedger == InitLedger /\ [][Next]_vars

SpecSummary == InitSummary /\ [][Next]_vars

SpecStages == InitStages /\ [][Next]_vars

TypeOK ==
    /\ pc \in {"for_item", "probe", "starting", "attempts", "dl_popen",
               "dl_read", "glob", "sleep_v", "sleep_a", "cv_popen", "cv_read",
               "sleep_cv", "exit", "fatal", "aborted"}
    /\ i \in 1..(NumItems + 1)
    /\ attempt \in 0..MaxRetries
    /\ procs \subseteq (Kinds \X Items)
    /\ CURRENT_SUBPROCESS \in {"none", "agent", "codec"}
    /\ error_count \in 0..NumItems
    /\ disk \in [Paths -> {"none", "old", "new"}]

\* ------------------------------------------------- unit converter
\* a token is a tuple of one-character strings; a converted value is
\* num / den * 1024^exp, or err when float() raised ValueError
Digits == {"0", "1", "2", "3", "4", "5", "6", "7", "8", "9"}
NumChars == Digits \cup {"."}

DigitVal(c) ==
    CASE c = "0" -> 0 [] c = "1" -> 1 [] c = "2" -> 2 [] c = "3" -> 3
      [] c = "4" -> 4 [] c = "5" -> 5 [] c = "6" -> 6 [] c = "7" -> 7
      [] c = "8" -> 8 [] c = "9" -> 9

\* str.upper(), one character
UpperChar(c) ==
    CASE c = "k" -> "K" [] c = "m" -> "M" [] c = "g" -> "G" [] c = "t" -> "T"
      [] c = "i" -> "I" [] c = "b" -> "B" [] c = "s" -> "S" [] c = "a" -> "A"
      [] c = "c" -> "C" [] OTHER -> c

upper(str) == [n \in 1..Len(str) |-> UpperChar(str[n])]

\* length of the longest prefix matched by [\d.]+ (0: no match)
NumRun(str) ==
    CHOOSE n \in 0..Len(str) :
        /\ \A j \in 1..n : str[j] \in NumChars
        /\ n = Len(str) \/ str[n + 1] \notin NumChars

Pow10(n) == IF n = 0 THEN 1 ELSE IF n = 1 THEN 10 ELSE IF n = 2 THEN 100
            ELSE IF n = 3 THEN 1000 ELSE 10000

RECURSIVE IntOf(_)
IntOf(ds) ==
    IF ds = <<>> THEN 0
    ELSE 10 * IntOf(SubSeq(ds, 1, Len(ds) - 1)) + DigitVal(ds[Len(ds)])

\* float() of a string of digits and dots: ValueError unless there is a
\* digit and at most one dot
float(str) ==
    LET dots == {n \in 1..Len(str) : str[n] = "."}
        digs == SelectSeq(str, LAMBDA c : c \in Digits)
    IN  IF Cardinality(dots) > 1 \/ digs = <<>>
                \/ \E n \in 1..Len(str) : str[n] \notin NumChars
        THEN [ok |-> FALSE, num |-> 0, den |-> 1]
        ELSE [ok |-> TRUE, num |-> IntOf(digs),
              den |-> IF dots = {} THEN 1
                      ELSE Pow10(Len(str) - (CHOOSE n \in dots : TRUE))]

Zero == [err |-> FALSE, num |-> 0, den |-> 1, exp |-> 0]
ValueError == [err |-> TRUE, num |-> 0, den |-> 1, exp |-> 0]

\* the multiplier 1024**exp selected by a unit that starts with K, M, G, T
UnitExp(unit) ==
    IF unit = <<>> THEN 0
    ELSE CASE unit[1] = "K" -> 1 [] unit[1] = "M" -> 2 [] unit[1] = "G" -> 3
           [] unit[1] = "T" -> 4 [] OTHER -> 0

Scaled(value, unit) ==
    IF ~value.ok THEN ValueError
    ELSE [err |-> FALSE, num |-> value.num, den |-> value.den,
          exp |-> UnitExp(unit)]

\* size_to_bytes without the .upper() of line 155
size_to_bytes_CaseSensitive(size_str) ==
    IF size_str = <<>> THEN Zero
    ELSE LET S == size_str
             n == NumRun(S)
         IN  IF n >= 1
             THEN Scaled(float(SubSeq(S, 1, n)),
                         IF n < Len(S) /\ S[n + 1] \in {"K", "M", "G", "T"}
                         THEN <<S[n + 1]>> ELSE <<>>)
             ELSE LET v == float(size_str)
                  IN  IF v.ok THEN Scaled(v, <<>>) ELSE Zero

\* lines 147-168
size_to_bytes(size_str) ==
    IF size_str = <<>> THEN Zero
    ELSE LET S == upper(size_str)
             n == NumRun(S)
         IN  IF n >= 1
             THEN \* re.match(r'([\d.]+)([KMGT]?)(?:i?B)?', ...)
                  Scaled(float(SubSeq(S, 1, n)),
                         IF n < Len(S) /\ S[n + 1] \in {"K", "M", "G", "T"}
                         THEN <<S[n + 1]>> ELSE <<>>)
             ELSE \* try: return float(size_str) except ValueError: 0.0
                  LET v == float(size_str)
                  IN  IF v.ok THEN Scaled(v, <<>>) ELSE Zero

\* length of the match of [KMGT]?I?B at position j of S (0: no match)
UnitRun(S, j) ==
    LET at(n) == IF n <= Len(S) THEN S[n] ELSE ""
    IN  IF at(j) \in {"K", "M", "G", "T"}
        THEN IF at(j + 1) = "I" /\ at(j + 2) = "B" THEN 3
             ELSE IF at(j + 1) = "B" THEN 2 ELSE 0
        ELSE IF at(j) = "I" /\ at(j + 1) = "B" THEN 2
        ELSE IF at(j) = "B" THEN 1 ELSE 0

\* lines 134-145
speed_to_bytes_per_second(speed_str) ==
    IF speed_str = <<>> THEN Zero
    ELSE LET S == upper(speed_str)
             n == NumRun(S)
             \* \s* : the spaces after the number
             j == CHOOSE m \in (n + 1)..(Len(S) + 1) :
                      /\ \A q \in (n + 1)..(m - 1) : S[q] = " "
                      /\ m = Len(S) + 1 \/ S[m] # " "
             u == UnitRun(S, j)
             slash(m) == m + 1 <= Len(S) /\ S[m] = "/" /\ S[m + 1] = "S"
         IN  \* re.match(r'([\d.]+)\s*([KMGT]?I?B)?/S', ...)
             IF n >= 1 /\ u > 0 /\ slash(j + u)
             THEN Scaled(float(SubSeq(S, 1, n)), SubSeq(S, j, j + u - 1))
             ELSE IF n >= 1 /\ slash(j)
             THEN Scaled(float(SubSeq(S, 1, n)), <<>>)
             ELSE Zero

\* the numbers the tokens of the model are built from, each with the value
\* it denotes (num / den)
NumStrs ==
    { [chars |-> <<"2", ".", "5">>, num |-> 25, den |-> 10],
      [chars |-> <<"1", "0">>, num |-> 10, den |-> 1],
      [chars |-> <<"0">>, num |-> 0, den |-> 1],
      [chars |-> <<".", "5">>, num |-> 5, den |-> 10],
      [chars |-> <<"7", ".">>, num |-> 7, den |-> 1],
      [chars |-> <<"5", "1", "2", ".", "0", "0">>, num |-> 512, den |-> 1],
      [chars |-> <<"2", "6", "2", "1", "4", "4", "0">>,
       num |-> 2621440, den |-> 1] }

Prefixes == {<<>>, <<"k">>, <<"K">>, <<"m">>, <<"M">>, <<"g">>, <<"G">>,
             <<"t">>, <<"T">>}
Suffixes == {<<>>, <<"B">>, <<"b">>, <<"i", "B">>, <<"I", "B">>,
             <<"i", "b">>, <<"I", "b">>}
RateMarks == {<<>>, <<"/", "s">>}

UnitInputs ==
    { [chars |-> n.chars \o p \o x \o r, v |-> n, prefix |-> p,
       suffix |-> x, rate |-> r # <<>>] :
         n \in NumStrs, p \in Prefixes, x \in Suffixes, r \in RateMarks }

\* strings that are no size or rate token: empty, without a leading number,
\* a lone dot, a number with two dots (bare, and inside a rate)
MalformedStrs ==
    { <<>>, <<"N", "/", "A">>, <<"a", "b", "c">>, <<".">>,
      <<"1", ".", "2", ".", "3">>,
      <<"1", ".", "2", ".", "3", "M", "i", "B", "/", "s">> }

MalformedInputs ==
    { [chars |-> c, v |-> [chars |-> <<>>, num |-> 0, den |-> 1],
       prefix |-> <<>>, suffix |-> <<>>, rate |-> FALSE] :
         c \in MalformedStrs }

\* main() at rest while a pure function is exercised
MainIdle ==
    /\ args = [retries |-> 1, is_video |-> FALSE, skip |-> FALSE,
               overwrite |-> FALSE, summarize |-> FALSE]
    /\ pc = "idle"
    /\ i = 1
    /\ attempt = 0
    /\ procs = {}
    /\ CURRENT_SUBPROCESS = "none"
    /\ current_files_to_cleanup = <<>>
    /\ failed_urls = <<>>
    /\ error_count = 0
    /\ SUMMARY_DATA = <<>>
    /\ disk = [p \in Paths |-> "none"]
    /\ OVERWRITE_ALL = FALSE
    /\ err_file = [state |-> "absent", lines |-> <<>>]
    /\ exit_status = -1
    /\ spawns = [k \in Items |-> [kind \in Kinds |-> 0]]
    /\ fails = [k \in Items |-> [kind \in Kinds |-> 0]]
    /\ succeeded = {}
    /\ interrupted_at = "none"
    /\ metrics = DefaultMetrics
    /\ report = [printed |-> FALSE]

InitUnits ==
    /\ MainIdle
    /\ u_in \in UnitInputs \cup MalformedInputs
    /\ u_out = [fn |-> "none", value |-> Zero]
    /\ hcfg = "idle"
    /\ hs = "idle"
    /\ now = 0
    /\ nlines = 0

\* a call of size_to_bytes on the token
ConvertSize ==
    /\ u_out.fn = "none"
    /\ u_out' = [fn |-> "size", value |-> size_to_bytes(u_in.chars)]
    /\ UNCHANGED <<mainvars, handlervars, u_in>>

\* a call of speed_to_bytes_per_second on the token
ConvertSpeed ==
    /\ u_out.fn = "none"
    /\ u_out' = [fn |-> "speed",
                 value |-> speed_to_bytes_per_second(u_in.chars)]
    /\ UNCHANGED <<mainvars, handlervars, u_in>>

NextUnits == ConvertSize \/ ConvertSpeed

SpecUnits == InitUnits /\ [][NextUnits]_vars

\* the byte count of a converted value (for values that fit)
Bytes(r) ==
    (r.num * (IF r.exp = 0 THEN 1 ELSE IF r.exp = 1 THEN 1024 ELSE 1048576))
        \div r.den

\* ------------------------------------------------ progress handlers
MaxLines == 4
MaxDuration == 2
US == 1000000
Threshold == 100

\* clock readings in milliseconds: the gaps between two ticks, and the
\* reading of time.monotonic() when the item starts
ShortGap == Threshold \div 2
LongGap == 2 * Threshold
StartClock == 10 * Threshold

Modes == {"verbose", "minimal", "compact", "silent"}

\* args.min, IS_COMPACT_MODE and IS_BATCH_MODE under each display mode
ModeFlags(m) ==
    [min |-> m = "minimal", compact |-> m = "compact", batch |-> m = "silent"]

DigitChar(n) == CHOOSE c \in Digits : DigitVal(c) = n

\* the text of out_time_us for k seconds of output
UsToken(k) ==
    IF k = 0 THEN <<"0">>
    ELSE (IF k < 0 THEN <<"-">> ELSE <<>>)
         \o <<DigitChar(IF k < 0 THEN -k ELSE k)>>
         \o <<"0", "0", "0", "0", "0", "0">>

UsTokens == {UsToken(k) : k \in -1..(MaxDuration + 1)}

\* int() of an optionally signed string of digits
int(str) ==
    IF str[1] = "-" THEN -IntOf(SubSeq(str, 2, Len(str))) ELSE IntOf(str)

SizeTokens == {<<"0">>, <<"1", "0", "0">>, <<"3", "0", "0">>}

PctTokens ==
    { <<"0", ".", "0", "%">>, <<"3", "0", ".", "0", "%">>,
      <<"5", "0", ".", "0", "%">>, <<"1", "0", "0", ".", "0", "%">>,
      <<"1", "5", "0", ".", "0", "%">> }
FullPct == <<"1", "0", "0", "%">>

SpeedTokens ==
    { <<"5", "1", "2", "K", "i", "B", "/", "s">>,
      <<"2", ".", "5", "M", "i", "B", "/", "s">> }

\* the total_duration handed to conversion_progress_handler
Durations ==
    {[known |-> FALSE, secs |-> 0]}
        \cup {[known |-> TRUE, secs |-> d] : d \in 0..MaxDuration}

NoProgress == [kind |-> "empty", p |-> <<>>, num |-> 0, den |-> 1]

\* lines 490-498 and 591: the globals reset for the item, DownloadState()
\* and ff_state
HandlerInit ==
    [stream_type |-> "video",
     current_file_download_speed_bps |-> Zero,
     current_file_compress_speed_bps |-> [num |-> 0, den |-> 1],
     VIDEO_PROGRESS |-> NoProgress,
     AUDIO_PROGRESS |-> NoProgress,
     ff_state |-> [total_size |-> <<"0">>, out_time_us |-> <<"0">>,
                   last_update |-> 0],
     writes |-> 0]

InitProgress ==
    /\ MainIdle
    /\ u_in = "idle"
    /\ u_out = "idle"
    /\ hcfg \in [is_video : BOOLEAN, total_duration : Durations,
                 stage : {"agent"}, attempt : {0}, start_line : {0}]
    /\ hs = [m \in Modes |-> HandlerInit]
    /\ now = StartClock
    /\ nlines = 0

\* lines 353-396: a line with '[download]', '%' and 'ETA' that the pattern
\* of line 354 matches; p and speed are its captured groups
download_progress(h, m, p, speed) ==
    LET progress == [kind |-> "download", p |-> p, num |-> 0, den |-> 1]
        toVideo == hcfg.is_video /\ h.stream_type = "video"
    IN  [h EXCEPT
           !.current_file_download_speed_bps = speed_to_bytes_per_second(speed),
           !.VIDEO_PROGRESS = IF toVideo THEN progress ELSE @,
           !.AUDIO_PROGRESS = IF toVideo THEN @ ELSE progress,
           \* 383, 389, 395: every branch writes
           !.writes = @ + 1]

\* the completion line leaving the active sub-stream as it is
download_complete_NoSwitch(h, m) ==
    [h EXCEPT !.stream_type = @]

\* lines 398-409: a line with '[download]' and '100%' but no 'ETA'
download_complete(h, m) ==
    [h EXCEPT !.stream_type =
        IF hcfg.is_video /\ h.stream_type = "video" THEN "audio" ELSE @]

\* download_progress_handler on one line of the download agent
DownloadLine(p, speed, eta) ==
    /\ hcfg.stage = "agent"
    /\ nlines < MaxLines
    /\ nlines' = nlines + 1
    /\ hs' = [m \in Modes |->
                IF eta THEN download_progress(hs[m], m, p, speed)
                ELSE IF p = FullPct THEN download_complete(hs[m], m)
                ELSE hs[m]]
    /\ UNCHANGED <<mainvars, unitvars, hcfg, now>>

\* lines 545-561: the video download returned False and attempts remain; the
\* next iteration runs the download agent again with the download_state
\* created for the item at line 498.  start_line is the number of lines read
\* before this invocation
RetryRetrieval ==
    /\ hcfg.stage = "agent"
    /\ hcfg.is_video
    /\ hcfg.attempt < MaxRetries - 1
    /\ hcfg' = [hcfg EXCEPT !.attempt = @ + 1, !.start_line = nlines]
    /\ UNCHANGED <<mainvars, unitvars, hs, now, nlines>>

\* lines 591-592: the conversion stage of an audio item begins
StartConversion ==
    /\ hcfg.stage = "agent"
    /\ ~hcfg.is_video
    /\ hcfg' = [hcfg EXCEPT !.stage = "codec"]
    /\ UNCHANGED <<mainvars, unitvars, hs, now, nlines>>

\* lines 414-415 on a 'total_size=<size>' line
ConversionSize(size) ==
    /\ hcfg.stage = "codec"
    /\ nlines < MaxLines
    /\ nlines' = nlines + 1
    /\ hs' = [m \in Modes |-> [hs[m] EXCEPT !.ff_state.total_size = size]]
    /\ UNCHANGED <<mainvars, unitvars, hcfg, now>>

\* line 419
Throttled(h, m, t) ==
    /\ ModeFlags(m).min \/ ModeFlags(m).compact
    /\ t - h.ff_state.last_update < Threshold

RECURSIVE GCD(_, _)
GCD(a, b) == IF b = 0 THEN a ELSE GCD(b, a % b)

\* the number n / d (d > 0) in lowest terms
Fraction(n, d) ==
    LET g == GCD(IF n < 0 THEN -n ELSE n, d)
    IN  [num |-> n \div g, den |-> d \div g]

\* a percent computed as if an unknown or zero duration were one second
percent_DefaultDuration(us, total_duration) ==
    LET d == IF total_duration.known /\ total_duration.secs > 0
             THEN total_duration.secs ELSE 1
    IN  IF 100 * us >= 100 * (d * US)
        THEN Fraction(100, 1)
        ELSE Fraction(100 * us, d * US)

\* lines 433-435; None > 0 raises TypeError, caught by the bare except
percent(us, total_duration) ==
    IF total_duration.known /\ total_duration.secs > 0
    THEN IF 100 * us >= 100 * (total_duration.secs * US)
         THEN Fraction(100, 1)
         ELSE Fraction(100 * us, total_duration.secs * US)
    ELSE Fraction(0, 1)

\* lines 414-452 on an 'out_time_us=<value>' line read at clock reading t
conversion_tick(h, m, value, t) ==
    LET st == [h.ff_state EXCEPT !.out_time_us = value]
        us == int(st.out_time_us)
        total_bytes_converted == Bytes(size_to_bytes(st.total_size))
        pct == percent(us, hcfg.total_duration)
    IN  IF Throttled(h, m, t)
        THEN [h EXCEPT !.ff_state = st]
        ELSE [h EXCEPT
                !.ff_state = [st EXCEPT !.last_update = t],
                \* bytes per microsecond
                !.current_file_compress_speed_bps =
                    IF us > 0 /\ total_bytes_converted > 0
                    THEN [num |-> total_bytes_converted, den |-> us]
                    ELSE [num |-> 0, den |-> 1],
                !.AUDIO_PROGRESS = [kind |-> "converting", p |-> <<>>,
                                    num |-> pct.num, den |-> pct.den],
                \* 446, 449, 451: every branch writes
                !.writes = @ + 1]

\* conversion_progress_handler on the line that ends a tick, gap
\* milliseconds after the previous line
ConversionTick(value, gap) ==
    /\ hcfg.stage = "codec"
    /\ nlines < MaxLines
    /\ nlines' = nlines + 1
    /\ now' = now + gap
    /\ hs' = [m \in Modes |-> conversion_tick(hs[m], m, value, now + gap)]
    /\ UNCHANGED <<mainvars, unitvars, hcfg>>

NextProgress ==
    \/ \E p \in PctTokens, speed \in SpeedTokens : DownloadLine(p, speed, TRUE)
    \/ DownloadLine(FullPct, <<>>, FALSE)
    \/ RetryRetrieval
    \/ StartConversion
    \/ \E size \in SizeTokens : ConversionSize(size)
    \/ \E value \in UsTokens, gap \in {ShortGap, LongGap} :
          ConversionTick(value, gap)

SpecProgress == InitProgress /\ [][NextProgress]_vars

\* ------------------------------------------------------------ properties
\* positions of the FailureRecords appended for item k
Records(k) == {n \in 1..Len(failed_urls) : failed_urls[n].url = k}

\* item k has left the per-item loop body
Processed(k) == k < i

\* stage s of item k ran in every iteration of the attempt loop that was
\* made for k, and failed every time
AlwaysFailed(k, s) ==
    /\ spawns[k][s] >= 1
    /\ fails[k][s] = spawns[k][s]
    /\ spawns[k][s] = spawns[k]["agent"]

\* C1: with N >= 1 configured attempts, an item whose retrieval or transcode
\* stage fails on every attempt has had exactly N attempts of that stage and
\* exactly one FailureRecord when the orchestrator moves on to the next item.
C1_RetryBound ==
    \A k \in Items, s \in {"agent", "codec"} :
        (Processed(k) /\ args.retries >= 1 /\ AlwaysFailed(k, s)) =>
            /\ spawns[k][s] = args.retries
            /\ Cardinality(Records(k)) = 1

\* C2: a run that ends without cancellation and without a setup-level
\* failure (here: one configured with at least one attempt per item) exits
\* with the number of items that did not reach Succeeded.
C2_ExitStatus ==
    (pc = "exit" /\ args.retries >= 1) =>
        exit_status = Cardinality(Items \ succeeded)

\* C3: a request whose metadata probe failed has exactly one FailureRecord,
\* with reason "Metadata fetch failed.", no retrieval or transcode process
\* was ever spawned for it, and the orchestrator has moved on past it.
C3_MetadataFailureNonFatal ==
    \A k \in Items :
        fails[k]["probe"] >= 1 =>
            /\ Cardinality(Records(k)) = 1
            /\ \A n \in Records(k) :
                   failed_urls[n].reason = "Metadata fetch failed."
            /\ spawns[k]["agent"] = 0
            /\ spawns[k]["codec"] = 0
            /\ Processed(k)

\* C3 witness: item 1 failed probing and the probe of item 2 is running
C3_Witness ==
    /\ fails[1]["probe"] = 1
    /\ Len(failed_urls) = 1
    /\ pc = "probe"
    /\ i = 2

\* C4: with --skip, no retrieval and no transcode process runs for an item
\* whose final artifact already exists, and that artifact stays as it was.
C4_SkipIdempotence ==
    args.skip =>
        \A p \in procs :
            p[1] \in {"agent", "codec"} => disk[FinalPath(p[2])] # "old"

\* C5: a retrieval process runs for an item whose final artifact already
\* exists only if --overwrite was given or an interactive answer allowed it
\* (the only trace an answer could leave in this program is OVERWRITE_ALL).
C5_ExistingFilePolicy ==
    \A p \in procs :
        (p[1] = "agent" /\ disk[FinalPath(p[2])] = "old") =>
            (args.overwrite \/ OVERWRITE_ALL)

\* C6: once an item's processing has ended, the temporary artifact created
\* by its retrieval stage is no longer on disk.
C6_TempRemoved ==
    \A k \in Items : Processed(k) => disk[TempPath(k)] = "none"

\* C7: after an interrupt that arrived while a retrieval stage was in
\* flight, the partially written artifact of that item is gone.
C7_InterruptRemovesPartial ==
    (pc = "aborted" /\ interrupted_at = "dl_read") =>
        disk[PartPath(i)] = "none"

\* C8: the cleanup registry holds only paths of the item in flight.
C8_RegistryInFlightOnly ==
    \A n \in 1..Len(current_files_to_cleanup) :
        current_files_to_cleanup[n][2] = i

\* C9: after an interrupt no external process is left alive and the exit
\* status is non-zero.
C9_InterruptTerminates ==
    pc = "aborted" => (procs = {} /\ exit_status # 0)

\* C10: at most one external process is alive, never the download agent
\* together with the codec tool, every live process belongs to the current
\* item, and nothing has been spawned for an item after the current one.
C10_Sequential ==
    /\ Cardinality(procs) <= 1
    /\ ~(\E p, q \in procs : p[1] = "agent" /\ q[1] = "codec")
    /\ \A p \in procs : p[2] = i
    /\ \A k \in Items : k > i => \A kind \in Kinds : spawns[k][kind] = 0

\* C10 witness: the codec tool runs for item 2 after item 1 went through a
\* retrieval and a transcode of its own
C10_Witness ==
    /\ procs = {<<"codec", 2>>}
    /\ spawns[1]["agent"] >= 1
    /\ spawns[1]["codec"] >= 1
    /\ spawns[2]["agent"] >= 1

\* the ledger file was written by this run
LedgerWritten == err_file.state = "written"

\* items that have a FailureRecord
FailedItems == {k \in Items : Records(k) # {}}

\* C11 as stated: at the end of every run that was not cancelled the ledger
\* file was written iff a FailureRecord was appended.
C11_LedgerIffFailure ==
    pc \in {"exit", "fatal"} => (LedgerWritten <=> failed_urls # <<>>)

\* C11 amended: at the end of a run that was neither cancelled nor stopped
\* by a setup-level failure the ledger file was written iff a FailureRecord
\* was appended, and then it holds one line "<source> | REASON: <tag>" per
\* FailureRecord, in the order the items failed.
C11_LedgerAtNormalEnd ==
    pc = "exit" =>
        /\ LedgerWritten <=> failed_urls # <<>>
        /\ LedgerWritten =>
              /\ Len(err_file.lines) = Len(failed_urls)
              /\ \A n \in 1..Len(err_file.lines) :
                    /\ Len(err_file.lines[n]) = 3
                    /\ err_file.lines[n][1] = failed_urls[n].url
                    /\ err_file.lines[n][2] = " | REASON: "
                    /\ err_file.lines[n][3] = failed_urls[n].reason
              /\ \A n, m \in 1..Len(err_file.lines) :
                    n < m => err_file.lines[n][1] < err_file.lines[m][1]
              /\ {err_file.lines[n][1] : n \in 1..Len(err_file.lines)}
                    = FailedItems

\* C11 witness: a finished run with two failed items and a two-line ledger
\* with two different reasons
C11_Witness ==
    /\ pc = "exit"
    /\ LedgerWritten
    /\ Len(err_file.lines) = 2
    /\ err_file.lines[1][3] # err_file.lines[2][3]

\* items whose metadata probe failed
ProbeFailed == {k \in Items : fails[k]["probe"] >= 1}

TempMissing ==
    {k \in Items : \E n \in Records(k) :
        failed_urls[n].reason = "Downloaded temp file missing."}

\* C13: an item whose download reported success without leaving a
\* temporary artifact has exactly one FailureRecord, the orchestrator has
\* left it at once (whatever number of attempts remained), no transcode was
\* spawned for that attempt (one retrieval more than transcodes) and no
\* later process was spawned for it.
C13_TempMissingFatal ==
    \A k \in TempMissing :
        /\ Cardinality(Records(k)) = 1
        /\ Processed(k)
        /\ spawns[k]["codec"] = spawns[k]["agent"] - 1
        /\ \A p \in procs : p[2] # k
        /\ k \notin succeeded

\* C13 witness: item 1 was given up on its first attempt with attempts
\* remaining, and item 2 is being retrieved
C13_Witness ==
    /\ 1 \in TempMissing
    /\ spawns[1]["agent"] = 1
    /\ args.retries > 1
    /\ <<"agent", 2>> \in procs

\* an external tool could not be launched for item k: the probe (history:
\* a probe failure without a probe process) or a stage process
ToolUnreachable(k) ==
    \/ fails[k]["probe"] >= 1 /\ spawns[k]["probe"] = 0
    \/ pc = "fatal" /\ i = k

\* C14: once a required external tool could not be launched the run is
\* over with a non-zero exit status and nothing is spawned for later items.
C14_SetupFatal ==
    \A k \in Items :
        ToolUnreachable(k) =>
            /\ pc = "fatal"
            /\ exit_status > 0
            /\ \A j \in Items : j > k =>
                   \A kind \in Kinds : spawns[j][kind] = 0

\* the power of 1024 that a prefix letter stands for
PrefixPower(p) ==
    IF p = <<>> THEN 0
    ELSE IF p[1] \in {"k", "K"} THEN 1
    ELSE IF p[1] \in {"m", "M"} THEN 2
    ELSE IF p[1] \in {"g", "G"} THEN 3
    ELSE 4

\* C20: size_to_bytes maps v+p, v+p+'B' and v+p+'iB', in any letter case,
\* to v * 1024^k with k = 0..4 for p = none, K, M, G, T; so '2.5M',
\* '2.5MiB' (and '2621440') come out as 2,621,440.
C20_SizeNormalization ==
    (u_out.fn = "size" /\ u_in \in UnitInputs /\ ~u_in.rate) =>
        /\ ~u_out.value.err
        /\ u_out.value.exp = PrefixPower(u_in.prefix)
        /\ u_out.value.num * u_in.v.den = u_in.v.num * u_out.value.den
        /\ (u_in.v.num = 25 /\ u_in.v.den = 10
              /\ PrefixPower(u_in.prefix) = 2) =>
                 Bytes(u_out.value) = 2621440
        /\ (u_in.v.num = 2621440 /\ u_in.prefix = <<>>) =>
                 Bytes(u_out.value) = 2621440

\* C20 witness: '2.5miB' was converted to 2.5 * 1024^2
C20_Witness ==
    /\ u_out.fn = "size"
    /\ u_in.chars = <<"2", ".", "5", "m", "i", "B">>
    /\ Bytes(u_out.value) = 2621440

\* the duration is 0 or unknown
NoDuration == ~hcfg.total_duration.known \/ hcfg.total_duration.secs = 0

\* a tick has been rendered under mode m
Rendered(m) == hs[m].AUDIO_PROGRESS.kind = "converting"

\* C15: in silent mode no retrieval line and no transcode tick makes a
\* write to the display.
C15_SilentNoWrites == hs["silent"].writes = 0

\* two rates are the same number
SameRate(a, b) == a.num * b.den = b.num * a.den

\* C16: after the same lines and clock readings, the recorded retrieval
\* rate, the recorded conversion rate and the stream kind are the same under
\* all four display modes.
C16_ModeIndependent ==
    \A m \in Modes :
        /\ hs[m].stream_type = hs["verbose"].stream_type
        /\ hs[m].current_file_download_speed_bps
              = hs["verbose"].current_file_download_speed_bps
        /\ SameRate(hs[m].current_file_compress_speed_bps,
                    hs["verbose"].current_file_compress_speed_bps)

\* C17: with a known duration D > 0, the percent of a tick with
\* out_time_us = u is 100 * u / (D * 1,000,000) clamped to [0,100].
C17_PercentClamped ==
    (Rendered("verbose") /\ ~NoDuration) =>
        LET a == hs["verbose"].AUDIO_PROGRESS
            u == int(hs["verbose"].ff_state.out_time_us)
            full == hcfg.total_duration.secs * US
        IN  /\ 0 <= a.num /\ a.num <= 100 * a.den
            /\ u <= 0 => a.num = 0
            /\ u >= full => a.num = 100 * a.den
            /\ (0 < u /\ u < full) =>
                  [num |-> a.num, den |-> a.den] = Fraction(100 * u, full)

\* C18: with a duration of 0 or unknown, a tick reports an indeterminate
\* percent, which no numeric percent equals (here: one without denominator).
C18_Indeterminate ==
    \A m \in Modes : (Rendered(m) /\ NoDuration) => hs[m].AUDIO_PROGRESS.den = 0

\* C18 as the code has it: with a duration of 0 or unknown, every rendered
\* tick reports the number 0, whatever out_time_us is.
C18_ZeroWhenNoDuration ==
    \A m \in Modes : (Rendered(m) /\ NoDuration) =>
        /\ hs[m].AUDIO_PROGRESS.num = 0
        /\ hs[m].AUDIO_PROGRESS.den = 1

\* C18 witness: a tick with a positive out_time_us was rendered in every
\* mode for an item of unknown duration
C18_Witness ==
    /\ hcfg.stage = "codec"
    /\ ~hcfg.total_duration.known
    /\ \A m \in Modes :
          /\ Rendered(m)
          /\ int(hs[m].ff_state.out_time_us) > 0
          /\ hs[m].ff_state.last_update = now

\* the number a percent token stands for
PctValue(p) == float(SubSeq(p, 1, Len(p) - 1))

\* C19: every percent the retrieval lines of one stream put into the
\* progress lies in [0,100], and is not below the one before it.
C19_PercentMonotone ==
    [][\A f \in {"VIDEO_PROGRESS", "AUDIO_PROGRESS"} :
          LET old == hs["verbose"][f]
              new == hs'["verbose"][f]
          IN  (hcfg.stage = "agent" /\ new.kind = "download") =>
                 /\ PctValue(new.p).num <= 100 * PctValue(new.p).den
                 /\ old.kind = "download" =>
                       PctValue(new.p).num * PctValue(old.p).den
                          >= PctValue(old.p).num * PctValue(new.p).den]_vars

\* two converted values are the same byte count
SameBytes(a, b) ==
    /\ a.err = b.err
    /\ \/ a.num = 0 /\ b.num = 0
       \/ a.exp = b.exp /\ a.num * b.den = b.num * a.den

\* C21: for every size token T, the rate token T + '/s' normalizes to the
\* byte count T normalizes to.
C21_RateAgreesWithSize ==
    (u_out.fn = "speed" /\ u_in \in UnitInputs /\ u_in.rate) =>
        SameBytes(u_out.value,
                  size_to_bytes(u_in.v.chars \o u_in.prefix \o u_in.suffix))

\* C22: on a string that is no well-formed token both converters return 0
\* and raise nothing.
C22_Totality ==
    (u_out.fn # "none" /\ u_in \in MalformedInputs) => u_out.value = Zero

RECURSIVE SetSum(_, _)
SetSum(S, f) ==
    IF S = {} THEN 0
    ELSE LET k == CHOOSE x \in S : TRUE
         IN  f[k] + SetSum(S \ {k}, f)

\* the final size and the rate samples each item contributes
FinalSize == [k \in Items |-> metrics[k].size]
DownloadSample == [k \in Items |-> metrics[k].download_speed]
CompressSample ==
    [k \in Items |-> IF args.is_video THEN 0 ELSE metrics[k].compress_speed]

\* avg is the arithmetic mean of the positive samples of the succeeded
\* items, or 0 when there is none
IsMeanOfPositive(avg, sample) ==
    LET pos == {k \in succeeded : sample[k] > 0}
    IN  IF pos = {} THEN avg.num = 0
        ELSE avg.num * Cardinality(pos) = SetSum(pos, sample) * avg.den

\* C23: the summary of a run with -sum reports as succeeded count the number
\* of succeeded items, as total size the sum of their final sizes, and as
\* average rates the means of their samples that are > 0 (0 without any).
C23_SummaryAggregation ==
    (pc = "exit" /\ args.summarize) =>
        /\ report.printed
        /\ report.total_succeeded = Cardinality(succeeded)
        /\ report.total_downloaded_bytes_sum = SetSum(succeeded, FinalSize)
        /\ IsMeanOfPositive(report.avg_download_speed_bps, DownloadSample)
        /\ IsMeanOfPositive(report.avg_compress_speed_bps, CompressSample)

\* C23 witness: both items of an audio run succeeded, one of them with a
\* retrieval rate of 0: the average retrieval rate is the other one's 200,
\* the average conversion rate (400 + 600) / 2, the total size 500
C23_Witness ==
    /\ pc = "exit"
    /\ ~args.is_video
    /\ succeeded = {1, 2}
    /\ metrics[1].download_speed = 0
    /\ metrics[2].download_speed = 200
    /\ report.printed
    /\ report.total_succeeded = 2
    /\ report.total_downloaded_bytes_sum = 500
    /\ report.avg_download_speed_bps = [num |-> 200, den |-> 1]
    /\ report.avg_compress_speed_bps = [num |-> 1000, den |-> 2]

\* a percent token that stands for 100
IsFull(p) == PctValue(p).num = 100 * PctValue(p).den

\* what C24 says of every mode apart from the line that switches: before
\* the switch the events go to the video sub-stream, after it to the audio
\* sub-stream, the switch is never undone, and an audio item has no video
\* events
Attribution(old, new) ==
    /\ hcfg.is_video =>
          /\ old.stream_type = "video" =>
                new.AUDIO_PROGRESS = old.AUDIO_PROGRESS
          /\ old.stream_type = "audio" =>
                /\ new.VIDEO_PROGRESS = old.VIDEO_PROGRESS
                /\ new.stream_type = "audio"
    /\ ~hcfg.is_video => new.VIDEO_PROGRESS = NoProgress

\* C24: for a video item the first retrieval line reaching 100% switches
\* the active sub-stream to audio (no video event at 100% leaves it at
\* video); events before it are attributed to video, later ones to audio,
\* never back; for an audio item every event is attributed to audio.
C24_SwitchAtFull ==
    [][\A m \in Modes :
          (hcfg.stage = "agent" /\ hcfg'.stage = "agent") =>
             /\ Attribution(hs[m], hs'[m])
             /\ (/\ hcfg.is_video
                 /\ hs'[m].VIDEO_PROGRESS # hs[m].VIDEO_PROGRESS
                 /\ IsFull(hs'[m].VIDEO_PROGRESS.p)) =>
                    hs'[m].stream_type = "audio"]_vars

\* C24 as the code has it: the switch is made by the completion line (the
\* line with '100%' and no 'ETA', which is no progress event), and by no
\* other line; a progress event at 100.0% leaves the sub-stream as it is.
C24_SwitchAtCompletion ==
    [][\A m \in Modes :
          (hcfg.stage = "agent" /\ hcfg'.stage = "agent") =>
             /\ Attribution(hs[m], hs'[m])
             /\ hs'[m].stream_type # hs[m].stream_type =>
                   /\ hs'[m].writes = hs[m].writes
                   /\ hs'[m].VIDEO_PROGRESS = hs[m].VIDEO_PROGRESS
                   /\ hs'[m].AUDIO_PROGRESS = hs[m].AUDIO_PROGRESS
             /\ (/\ hcfg.is_video
                 /\ nlines' = nlines + 1
                 /\ hs'[m].writes = hs[m].writes) =>
                    hs'[m].stream_type = "audio"]_vars

\* C24 witness: a video item whose video stream reported 100.0%, then the
\* completion line, then an audio event at 50.0%
C24_Witness ==
    /\ hcfg.stage = "agent"
    /\ hcfg.is_video
    /\ \A m \in Modes :
          /\ hs[m].stream_type = "audio"
          /\ hs[m].VIDEO_PROGRESS.kind = "download"
          /\ IsFull(hs[m].VIDEO_PROGRESS.p)
          /\ hs[m].AUDIO_PROGRESS.p = <<"5", "0", ".", "0", "%">>

\* C25: when an invocation of the video retrieval starts (first attempt or
\* retry), the active sub-stream is video.
C25_FreshStreamPerInvocation ==
    (/\ hcfg.stage = "agent"
     /\ hcfg.is_video
     /\ nlines = hcfg.start_line) =>
        \A m \in Modes : hs[m].stream_type = "video"

\* retrieval stages of item k that reported success so far
RetrievalsOk(k) ==
    spawns[k]["agent"] - fails[k]["agent"]
        - (IF <<"agent", k>> \in procs THEN 1 ELSE 0)

\* C26: under an audio policy the codec tool is spawned for an item only
\* when the retrieval of the same attempt has reported success and its
\* temporary artifact is found, and success is recorded only when the
\* transcode returns success; under a video policy success is recorded when
\* the retrieval returns and no codec-tool process is ever spawned.
C26_StageOrdering ==
    [][\A k \in Items :
          /\ spawns'[k]["codec"] > spawns[k]["codec"] =>
                /\ ~args.is_video
                /\ k = i
                /\ pc = "glob"
                /\ Exists(TempPath(k))
                /\ RetrievalsOk(k) > spawns[k]["codec"]
          /\ (k \in succeeded' /\ k \notin succeeded) =>
                /\ k = i
                /\ IF args.is_video
                   THEN pc = "dl_read" /\ <<"agent", k>> \in procs
                   ELSE pc = "cv_read" /\ <<"codec", k>> \in procs
                                       /\ RetrievalsOk(k) >= 1
          /\ args.is_video => spawns'[k]["codec"] = 0]_vars

\* C26 witness: an audio item that succeeded at its second attempt: two
\* retrievals, two transcodes, the first of which failed
C26_Witness ==
    /\ ~args.is_video
    /\ 1 \in succeeded
    /\ spawns[1]["agent"] = 2
    /\ spawns[1]["codec"] = 2
    /\ fails[1]["codec"] = 1
    /\ fails[1]["agent"] = 0

\* C27: when a transcode attempt failed and attempts remain, the temporary
\* artifact is deleted and the next attempt begins with a retrieval (every
\* transcode follows a retrieval of its own attempt, none runs on a stale
\* artifact); an item never gets more retrievals than args.retries.
C27_RetryAfterTranscode ==
    [][\A k \in Items :
          /\ spawns'[k]["agent"] <= args.retries
          /\ spawns'[k]["codec"] > spawns[k]["codec"] =>
                spawns[k]["agent"] = spawns[k]["codec"] + 1
          /\ (k = i /\ pc = "sleep_cv" /\ pc' \notin {"sleep_cv", "aborted"}) =>
                /\ disk'[TempPath(k)] = "none"
                /\ pc' = "attempts"
                /\ attempt' = attempt + 1
                /\ attempt' < args.retries]_vars

\* C27 witness: the second retrieval of item 1 is running after its first
\* transcode failed, and the temporary artifact of the first attempt is gone
C27_Witness ==
    /\ i = 1
    /\ fails[1]["codec"] = 1
    /\ spawns[1]["codec"] = 1
    /\ spawns[1]["agent"] = 2
    /\ <<"agent", 1>> \in procs
    /\ disk[TempPath(1)] = "none"

\* the outcome recorded for item k is unique, and the failure counter
\* counts the FailureRecords
OutcomeUnique(k) ==
    /\ Cardinality(Records(k)) <= 1
    /\ ~(k \in succeeded /\ Records(k) # {})
    /\ error_count = Len(failed_urls)

\* C28: every item has at most one FailureRecord and never a success and a
\* FailureRecord, no process is spawned for an item whose success or failure
\* is recorded, and error_count equals the number of FailureRecords.
C28_TerminalOutcome ==
    [][\A k \in Items :
          /\ OutcomeUnique(k)
          /\ OutcomeUnique(k)'
          /\ (k \in succeeded \/ Records(k) # {}) =>
                spawns'[k] = spawns[k]]_vars

\* C28 witness: a finished run of two items, the first failed in its last
\* attempt after a retry, the second succeeded
C28_Witness ==
    /\ pc = "exit"
    /\ Cardinality(Records(1)) = 1
    /\ fails[1]["agent"] = 2
    /\ succeeded = {2}
    /\ error_count = 1
    /\ exit_status = 1

\* C29: a transcode stage that is reading the codec tool's output goes on
\* reading or returns with the tool's exit result, whatever the value of
\* out_time_us is; the run is not terminated, so the later items are still
\* processed.
C29_MalformedTickNotFatal ==
    [][pc = "cv_read" => pc' # "fatal"]_vars

====
